---- MODULE Spec2Model ----
(***************************************************************************)
(* obsidian-githobs: the front-matter property codec                       *)
(* (src/src/helper/properties.ts) and the sync actions pushIssue,          *)
(* fetchIssue, pullIssue with updateFile (src/unnamed/part_001).           *)
(*                                                                         *)
(* Texts are TLA+ strings; a JavaScript string method is modelled by an    *)
(* operator that computes what the method computes, character by           *)
(* character.  A JavaScript value that may be undefined is a tuple: <<>>   *)
(* is undefined and <<v>> is the value v.                                  *)
(***************************************************************************)
EXTENDS Integers, Sequences, FiniteSets, TLC

VARIABLES
    text,       \* codec harness: the input text `data`
    call,       \* codec harness: the function applied and its arguments
    result,     \* codec harness: what the function returned
    vault,      \* the stored document: [data, name, mtime]
    fileData,   \* MarkdownFile.data: the editor's text of the document
    issueFromNote, \* draw's issueFromNote: the issue id of the text the panel
                \* was last drawn from, which its Pull button keeps
    hasFile,    \* MarkdownFile.file is not null
    remote,     \* "owner/repo" -> the issues of that repository, by number
    now,        \* the clock that stamps local edits and remote updates
    pc,         \* the sync actions in flight, by slot, with their locals
    last,       \* the sync action the step just taken completed, if any
    status,     \* GithubIssueControlsView.status: the verdict the panel holds
    created     \* the documents vault.create has made: [path, data]

vars == <<text, call, result, vault, fileData, issueFromNote, hasFile, remote,
          now, pc, last, status, created>>
codecVars == <<text, call, result>>
engineVars ==
    <<vault, fileData, issueFromNote, hasFile, remote, now, pc, last, status, created>>

(***************************************************************************)
(* undefined and defined values                                            *)
(***************************************************************************)
Undefined == <<>>
Def(v) == <<v>>
IsDef(o) == o # Undefined
Val(o) == o[1]
\* JavaScript truthiness of string | undefined and of number | undefined
TruthyStr(o) == IsDef(o) /\ Val(o) # ""
TruthyNum(o) == IsDef(o) /\ Val(o) # 0

(***************************************************************************)
(* JavaScript String and Array methods                                     *)
(***************************************************************************)
Min(S) == CHOOSE x \in S : \A y \in S : x <= y

CharAt(s, i) == SubSeq(s, i, i)

\* String.prototype.substring(n): the text from 0-based index n on
Substring(s, n) == IF n >= Len(s) THEN "" ELSE SubSeq(s, n + 1, Len(s))

\* String.prototype.substring(a, b): the arguments are swapped when a > b
Substring2(s, a, b) ==
    LET lo == IF a < b THEN a ELSE b
        hi == IF a < b THEN b ELSE a
    IN  SubSeq(s, lo + 1, IF hi > Len(s) THEN Len(s) ELSE hi)

StartsWith(s, p) == Len(p) <= Len(s) /\ SubSeq(s, 1, Len(p)) = p

EndsWith(s, p) == Len(p) <= Len(s) /\ SubSeq(s, Len(s) - Len(p) + 1, Len(s)) = p

Includes(s, p) == \E i \in 0..(Len(s) - Len(p)) : SubSeq(s, i + 1, i + Len(p)) = p

\* the white space that has no escape in a string of this module, written
\* as the characters themselves: U+000B (vertical tab), U+00A0, U+1680 and
\* U+FEFF.  The rest of it (U+2000 to U+200A, U+2028, U+2029, U+202F,
\* U+205F, U+3000) is outside the characters a string of this module can
\* hold and occurs in no text of the model
UnicodeSpaces == "  ﻿"

\* what String.prototype.trim and the regular expression \s take for white
\* space: WhiteSpace and LineTerminator of ECMAScript
Whitespace ==
    {" ", "\n", "\t", "\r", "\f"}
        \cup {SubSeq(UnicodeSpaces, i, i) : i \in 1..Len(UnicodeSpaces)}

RECURSIVE TrimStart(_)
TrimStart(s) ==
    IF Len(s) > 0 /\ CharAt(s, 1) \in Whitespace
    THEN TrimStart(SubSeq(s, 2, Len(s)))
    ELSE s

RECURSIVE TrimEnd(_)
TrimEnd(s) ==
    IF Len(s) > 0 /\ CharAt(s, Len(s)) \in Whitespace
    THEN TrimEnd(SubSeq(s, 1, Len(s) - 1))
    ELSE s

Trim(s) == TrimEnd(TrimStart(s))

\* String.prototype.split(sep) for a one-character separator
RECURSIVE Split(_, _)
Split(s, sep) ==
    LET hits == {i \in 1..Len(s) : CharAt(s, i) = sep}
    IN  IF hits = {}
        THEN <<s>>
        ELSE <<SubSeq(s, 1, Min(hits) - 1)>> \o Split(Substring(s, Min(hits)), sep)

\* Array.prototype.join(sep)
RECURSIVE Join(_, _)
Join(arr, sep) ==
    IF Len(arr) = 0 THEN ""
    ELSE IF Len(arr) = 1 THEN arr[1]
    ELSE arr[1] \o sep \o Join(Tail(arr), sep)

\* String.prototype.replace(/from/g, to): every match, left to right
RECURSIVE ReplaceAll(_, _, _)
ReplaceAll(s, from, to) ==
    IF Len(s) < Len(from) THEN s
    ELSE IF StartsWith(s, from)
    THEN to \o ReplaceAll(Substring(s, Len(from)), from, to)
    ELSE CharAt(s, 1) \o ReplaceAll(Substring(s, 1), from, to)

\* Array.prototype.indexOf: the 0-based index of the first x, or -1
IndexOf(arr, x) ==
    LET hits == {i \in 1..Len(arr) : arr[i] = x}
    IN  IF hits = {} THEN -1 ELSE Min(hits) - 1

\* Array.prototype.slice(start, end) with 0-based indices; a negative index
\* counts from the end of the array
Slice(arr, start, end) ==
    LET n  == Len(arr)
        lo == IF start < 0 THEN (IF n + start < 0 THEN 0 ELSE n + start)
              ELSE (IF start > n THEN n ELSE start)
        hi == IF end < 0 THEN (IF n + end < 0 THEN 0 ELSE n + end)
              ELSE (IF end > n THEN n ELSE end)
    IN  IF lo >= hi THEN <<>> ELSE SubSeq(arr, lo + 1, hi)

\* Array.prototype.slice(start)
SliceFrom(arr, start) == Slice(arr, start, Len(arr))

\* Array.prototype.find, given the elements that pass the test in array
\* order (arr.filter(test), SelectSeq): the first of them, or undefined
Find(passing) == IF passing = <<>> THEN Undefined ELSE Def(Head(passing))

(***************************************************************************)
(* src/src/helper/properties.ts                                            *)
(***************************************************************************)
GITHUB_ISSUE_PROPERTY_CODE == "github_issue"
GITHUB_REPO_PROPERTY_CODE == "github_repo"
GITHUB_ISSUE_TITLE_PROPERTY_CODE == "github_issue_title"
PROPERTIES_DELIMITER == "---"

NoProperties == [properties |-> Undefined, indexEndPropertiesLine |-> Undefined]

\* data.split('\n').  The lines of the texts the documents hold most often
\* are computed once and looked up; the lines of every other text are
\* computed where they are asked for
FrequentTexts ==
    {"body",
     "---\nfoo: bar\nbody",
     "---\ngithub_issue: 1\n---\nbody",
     "---\ngithub_issue: 1\n---\nremote text",
     "---\ngithub_issue: 1\ngithub_repo: acme/widgets\n---\nbody",
     "---\ngithub_issue: 1\ngithub_repo: acme/widgets\n---\nremote text",
     "---\nfoo: bar\ngithub_issue: 1\ngithub_issue_title: T\n---\nlocal",
     "---\nfoo: bar\ngithub_issue: 1\n---\n---\nfoo: bar\nbody"}

LinesOfFrequentTexts == [data \in FrequentTexts |-> Split(data, "\n")]

SplitLines(data) ==
    IF data \in FrequentTexts THEN LinesOfFrequentTexts[data] ELSE Split(data, "\n")

\* `!indexEndPropertiesLine` is true of 0 (the closing delimiter is the
\* second line) and false of -1 (indexOf found no closing delimiter)
readProperties(data) ==
    LET lines == SplitLines(data)
        firstLine == Head(lines)
        restOfLines == Tail(lines)
        indexEndPropertiesLine == IndexOf(restOfLines, PROPERTIES_DELIMITER)
    IN  IF firstLine # PROPERTIES_DELIMITER THEN NoProperties
        ELSE IF indexEndPropertiesLine = 0 THEN NoProperties
        ELSE [properties |-> Def(Slice(restOfLines, 0, indexEndPropertiesLine)),
              indexEndPropertiesLine |-> Def(indexEndPropertiesLine + 1)]

removeProperties(data) ==
    LET indexEndPropertiesLine == readProperties(data).indexEndPropertiesLine
        dataSplitted == SplitLines(data)
    IN  IF ~TruthyNum(indexEndPropertiesLine) THEN data
        ELSE Join(SliceFrom(dataSplitted, Val(indexEndPropertiesLine) + 1), "\n")

\* the shared body of readIssueId and readRepo: the first line that starts
\* with the code, cut after the code and one more character, trimmed
readByCode(data, code) ==
    LET properties == readProperties(data).properties
    IN  IF ~IsDef(properties) THEN Undefined
        ELSE LET StartsWithCode(p) == StartsWith(p, code)
                 property == Find(SelectSeq(Val(properties), StartsWithCode))
             IN  IF ~TruthyStr(property) THEN Undefined
                 ELSE Def(Trim(Substring(Val(property), Len(code \o ":"))))

readIssueId(data) == readByCode(data, GITHUB_ISSUE_PROPERTY_CODE)

readRepo(data) == readByCode(data, GITHUB_REPO_PROPERTY_CODE)

readIssueTitle(data) ==
    LET titlePart == readByCode(data, GITHUB_ISSUE_TITLE_PROPERTY_CODE)
    IN  IF ~IsDef(titlePart) THEN Undefined
        ELSE IF StartsWith(Val(titlePart), "\"") /\ EndsWith(Val(titlePart), "\"")
        THEN Def(ReplaceAll(Substring2(Val(titlePart), 1, Len(Val(titlePart)) - 1),
                        "\\\"", "\""))
        ELSE titlePart

\* the back quote, cut from a string that closes it with an apostrophe
BackQuote == SubSeq("`'", 1, 1)

\* the characters of the class at properties.ts 143: colon, back quote,
\* apostrophe, double quote, braces, brackets, bar, angle brackets, and
\* ! ? * & $ % @ # and the backslash
YamlSpecialChars ==
    {":", BackQuote, "'", "\"", "{", "}", "[", "]", "|", ">", "<", "!", "?", "*",
     "&", "$", "%", "@", "#", "\\"}

escapeYamlString(str) ==
    IF str = "" THEN ""
    ELSE IF \E i \in 1..Len(str) : CharAt(str, i) \in YamlSpecialChars \cup {"\n"}
    THEN "\"" \o ReplaceAll(str, "\"", "\\\"") \o "\""
    ELSE str

\* the shared body of writeIssueId and writeRepo (value is written as given)
\* and of writeIssueTitle (value is the escaped title)
writeByCode(data, code, value) ==
    LET properties == readProperties(data).properties
        WithoutCode(p) == ~Includes(p, code)
    IN  Join(<<PROPERTIES_DELIMITER>>
             \o (IF IsDef(properties) THEN SelectSeq(Val(properties), WithoutCode) ELSE <<>>)
             \o <<code \o ": " \o value>>
             \o <<PROPERTIES_DELIMITER>>, "\n")

writeIssueId(data, issueId) == writeByCode(data, GITHUB_ISSUE_PROPERTY_CODE, issueId)

writeRepo(data, repo) == writeByCode(data, GITHUB_REPO_PROPERTY_CODE, repo)

writeIssueTitle(data, issueTitle) ==
    writeByCode(data, GITHUB_ISSUE_TITLE_PROPERTY_CODE, escapeYamlString(issueTitle))

\* the existing lines writeAllGithubProperties carries over
otherProps(existingProps) ==
    LET Other(p) == /\ ~StartsWith(p, GITHUB_ISSUE_PROPERTY_CODE)
                    /\ ~StartsWith(p, GITHUB_REPO_PROPERTY_CODE)
                    /\ ~StartsWith(p, GITHUB_ISSUE_TITLE_PROPERTY_CODE)
    IN  IF IsDef(existingProps) THEN SelectSeq(Val(existingProps), Other) ELSE <<>>

\* properties is [issueId, repo, issueTitle], each a string or undefined
writeAllGithubProperties(data, properties) ==
    LET existingProps == readProperties(data).properties
        existingIssueId == readIssueId(data)
        existingRepo == readRepo(data)
        existingIssueTitle == readIssueTitle(data)
        issueLine ==
            IF IsDef(properties.issueId)
            THEN <<GITHUB_ISSUE_PROPERTY_CODE \o ": " \o Val(properties.issueId)>>
            ELSE IF TruthyStr(existingIssueId)
            THEN <<GITHUB_ISSUE_PROPERTY_CODE \o ": " \o Val(existingIssueId)>>
            ELSE <<>>
        repoLine ==
            IF IsDef(properties.repo)
            THEN <<GITHUB_REPO_PROPERTY_CODE \o ": " \o Val(properties.repo)>>
            ELSE IF TruthyStr(existingRepo)
            THEN <<GITHUB_REPO_PROPERTY_CODE \o ": " \o Val(existingRepo)>>
            ELSE <<>>
        titleLine ==
            IF IsDef(properties.issueTitle)
            THEN <<GITHUB_ISSUE_TITLE_PROPERTY_CODE \o ": "
                   \o escapeYamlString(Val(properties.issueTitle))>>
            ELSE IF TruthyStr(existingIssueTitle)
            THEN <<GITHUB_ISSUE_TITLE_PROPERTY_CODE \o ": "
                   \o escapeYamlString(Val(existingIssueTitle))>>
            ELSE <<>>
    IN  Join(<<PROPERTIES_DELIMITER>> \o otherProps(existingProps)
             \o issueLine \o repoLine \o titleLine
             \o <<PROPERTIES_DELIMITER>>, "\n")

\* `const [owner, repo] = repoString.split('/')` keeps the first two pieces
parseRepoOverride(repoString) ==
    IF ~TruthyStr(repoString) THEN [owner |-> Undefined, repo |-> Undefined]
    ELSE IF Includes(Val(repoString), "/")
    THEN [owner |-> Def(Trim(Split(Val(repoString), "/")[1])),
          repo |-> Def(Trim(Split(Val(repoString), "/")[2]))]
    ELSE [owner |-> Undefined, repo |-> Def(Trim(Val(repoString)))]

\* a resolution that falls back to the global value only for a missing
\* segment, not for an empty one
getEffectiveRepoSettingsNullish(data, settings) ==
    LET override == parseRepoOverride(readRepo(data))
    IN  [owner |-> IF IsDef(override.owner) THEN Val(override.owner) ELSE settings.owner,
         repo |-> IF IsDef(override.repo) THEN Val(override.repo) ELSE settings.repo,
         token |-> settings.token]

getEffectiveRepoSettings(data, settings) ==
    LET override == parseRepoOverride(readRepo(data))
    IN  [owner |-> IF TruthyStr(override.owner) THEN Val(override.owner) ELSE settings.owner,
         repo |-> IF TruthyStr(override.repo) THEN Val(override.repo) ELSE settings.repo,
         token |-> settings.token]

(***************************************************************************)
(* src/unnamed/part_001: updateFile, sanitizeFilename, pushIssue,          *)
(* fetchIssue, pullIssue                                                   *)
(***************************************************************************)
\* Number.prototype.toString() of a natural number
RECURSIVE NumberToString(_)
NumberToString(n) ==
    IF n < 10 THEN CharAt("0123456789", n + 1)
    ELSE NumberToString(n \div 10) \o CharAt("0123456789", (n % 10) + 1)

\* the characters of the class [\\/:*?"<>|]
InvalidFilenameChars == {"\\", "/", ":", "*", "?", "\"", "<", ">", "|"}

\* .replace(/[\\/:*?"<>|]/g, '_')
RECURSIVE ReplaceInvalidChars(_)
ReplaceInvalidChars(s) ==
    IF Len(s) = 0 THEN ""
    ELSE (IF CharAt(s, 1) \in InvalidFilenameChars THEN "_" ELSE CharAt(s, 1))
         \o ReplaceInvalidChars(Substring(s, 1))

\* .replace(/\s+/g, ' ')
RECURSIVE NormalizeWhitespace(_)
NormalizeWhitespace(s) ==
    IF Len(s) = 0 THEN ""
    ELSE IF CharAt(s, 1) \in Whitespace
    THEN " " \o NormalizeWhitespace(TrimStart(s))
    ELSE CharAt(s, 1) \o NormalizeWhitespace(Substring(s, 1))

\* a sanitizer that leaves the ends of the name untrimmed
sanitizeFilenameUntrimmed(filename) ==
    LET sanitized == NormalizeWhitespace(ReplaceInvalidChars(filename))
    IN  IF sanitized = "" THEN "Issue" ELSE sanitized

sanitizeFilename(filename) ==
    LET sanitized == Trim(NormalizeWhitespace(ReplaceInvalidChars(filename)))
    IN  IF sanitized = "" THEN "Issue" ELSE sanitized

\* createNewIssueNote: the path of the new note
newNotePath(parentPath, title, issueIdToUse) ==
    LET sanitizedTitle ==
            sanitizeFilename(IF title # "" THEN title ELSE "Issue-" \o issueIdToUse)
        newFilename == sanitizedTitle \o ".md"
    IN  IF parentPath # "" THEN parentPath \o "/" \o newFilename ELSE newFilename

\* createNewIssueNote: the text of the new note
newNoteContent(data, issueIdToUse, body) ==
    LET initialContent ==
            writeAllGithubProperties("", [issueId |-> Def(issueIdToUse),
                                          repo |-> readRepo(data),
                                          issueTitle |-> Undefined])
    IN  initialContent \o "\n\n" \o (IF TruthyStr(body) THEN Val(body) ELSE "No content")

\* a writer that puts the number after the returned one into the block
updatedContentNextNumber(originalData, number, externalData) ==
    LET dataToUse == IF IsDef(externalData) THEN Val(externalData) ELSE originalData
    IN  writeAllGithubProperties(dataToUse,
            [issueId |-> Def(NumberToString(number + 1)),
             repo |-> readRepo(originalData),
             issueTitle |-> Undefined])
        \o "\n" \o removeProperties(dataToUse)

\* updateFile, lines 16-29 and 63: the text handed to vault.modify.
\* externalData is a string or undefined (`??` takes null for undefined too)
updatedContent(originalData, number, externalData) ==
    LET dataToUse == IF IsDef(externalData) THEN Val(externalData) ELSE originalData
        repoOverride == readRepo(originalData)
        updatedProperties ==
            writeAllGithubProperties(dataToUse,
                [issueId |-> Def(NumberToString(number)),
                 repo |-> repoOverride,
                 issueTitle |-> Undefined])
    IN  updatedProperties \o "\n" \o removeProperties(dataToUse)

\* a writer that stamps the document one tick after the reported time
modifyMtimeLate(updated_at) == updated_at + 1

\* updateFile, line 64: new Date(res.json.updated_at).getTime(), the mtime
\* handed to vault.modify (time is counted in ticks on both sides)
modifyMtime(updated_at) == updated_at

\* fetchIssue, lines 134-146: the status from the remote updated_at and the
\* mtime of the stored file
CanPull == "can-pull"
CanPush == "can-push"

fetchStatus(updated_at, lastDate) ==
    LET afterPull == IF lastDate # 0 /\ updated_at > lastDate THEN Def(CanPull) ELSE Undefined
    IN  IF lastDate # 0 /\ updated_at < lastDate THEN Def(CanPush) ELSE afterPull

(***************************************************************************)
(* The sync engine: one document, the panel's three actions on it, the     *)
(* transport and the storage.  An action of the model is the code between  *)
(* two awaits.                                                             *)
(***************************************************************************)
MaxTime == 5
MaxIssues == 2

\* the plugin's global settings
Settings == [owner |-> "me", repo |-> "notes", token |-> "tok"]

\* texts the document starts with and the user edits it to
DocTexts ==
    {"body",
     "---\nfoo: bar\nbody",
     "---\ngithub_issue: 1\n---\nbody",
     "---\ngithub_issue: 1\ngithub_repo: acme/widgets\n---\nbody",
     "---\nfoo: bar\ngithub_issue: 1\ngithub_issue_title: T\n---\nlocal"}

\* texts the user edits the document to: one without a block, one that
\* tracks an issue of another repository
EditedTexts ==
    {"body", "---\ngithub_issue: 1\ngithub_repo: acme/widgets\n---\nbody"}

\* bodies an issue is edited to on the remote; undefined is the null body
\* of an issue without description
RemoteBodies ==
    {Def("remote text"), Def("---\ngithub_repo: evil/fork\n---\nremote text"), Undefined}

HTTP_OK == 200
HTTP_CREATED == 201

RepoKey(settings) == settings.owner \o "/" \o settings.repo

InitialRemote ==
    [key \in {"me/notes", "acme/widgets"} |->
        <<[title |-> IF key = "me/notes" THEN "Fix: bug/crash?" ELSE "Plain",
           body |-> Def("remote text"),
           updated_at |-> 2]>>]

\* the numbers of the issues of repository `key` that the id names
IssueNumbers(key, id) ==
    IF key \in DOMAIN remote
    THEN {n \in 1..Len(remote[key]) : NumberToString(n) = id}
    ELSE {}

\* a slot of pc, and last, are records with the same fields in every state
PcIdle ==
    [op |-> "idle", at |-> "idle", issueId |-> Undefined, settings |-> Settings,
     kind |-> "none", title |-> "", body |-> "", original |-> "", external |-> Undefined,
     number |-> 0, http |-> 0, stamp |-> 0, content |-> "", mtime |-> 0, newName |-> "",
     clean |-> TRUE, renameFailed |-> FALSE, parent |-> "", sent |-> 0,
     afterPush |-> FALSE,
     before |-> [data |-> "", name |-> "", mtime |-> 0]]

\* Pressing a button disables that button only (createInfoSection), and
\* every redraw makes all buttons anew: a trigger can be pressed while
\* another's action is in flight.  The code sets no limit to the actions in
\* flight; the model follows MaxInFlight of them at a time.
MaxInFlight == 2

Slots == 1..MaxInFlight

AllIdle == [s \in Slots |-> PcIdle]

NoLast ==
    [op |-> "none", outcome |-> "none", acked |-> FALSE, quiet |-> FALSE,
     repoKey |-> "", number |-> 0, original |-> "", external |-> Undefined,
     written |-> "", status |-> Undefined, date |-> Undefined,
     http |-> 0, remoteAt |-> 0, localAt |-> 0, afterPush |-> FALSE,
     intact |-> TRUE, renameFailed |-> FALSE, oldName |-> "", sent |-> 0]

(***************************************************************************)
(* The codec harness: a text is drawn, and one function of properties.ts   *)
(* is applied to it with drawn arguments.                                  *)
(***************************************************************************)
MaxProps == 2

\* lines a front-matter block may hold: the three tracked keys, an
\* untracked key, an untracked key that begins like a tracked one, and an
\* untracked line that mentions a tracked key; the override in its
\* owner/repo form and in its bare form
PropLines ==
    {"github_issue: 12", "github_repo: acme/widgets", "github_repo: widgets",
     "github_issue_title: \"a: b\"", "foo: bar", "github_repository: x",
     "see: github_issue"}

Bodies == {<<>>, <<"body">>, <<"body", "---", "tail">>}

SeqsUpTo(S, n) == UNION {[1..k -> S] : k \in 0..n}

Texts ==
    {Join(open \o props \o close \o body, "\n") :
        open \in {<<>>, <<PROPERTIES_DELIMITER>>},
        props \in SeqsUpTo(PropLines, MaxProps),
        close \in {<<>>, <<PROPERTIES_DELIMITER>>},
        body \in Bodies}

\* documents whose override has an empty owner or an empty repo segment
EmptySegmentTexts ==
    {"---\ngithub_repo: /widgets\n---\nbody", "---\ngithub_repo: acme/\n---\nbody",
     "---\ngithub_repo:  / \n---\nbody"}

\* values handed to writeIssueId and writeRepo: an issue number, the two
\* forms of a repository override, and the empty string
Values == {"12", "acme/widgets", "widgets", ""}

\* titles handed to writeIssueTitle: free text
Titles ==
    {"Plain", "He said \"hi\": ok", "back\\slash", "two\nlines", " pad", "it's",
     "a" \o BackQuote \o "b", ""}

\* strings handed to parseRepoOverride: no override, the bare form, the
\* owner/repo form plain and padded, and a form with a second slash
RepoStrings ==
    {Undefined, Def("widgets"), Def("acme/widgets"), Def(" acme / widgets "),
     Def("\facme/widgets \f"), Def("acme/widgets/sub")}

\* arguments handed to writeAllGithubProperties
AllProperties ==
    [issueId : {Undefined, Def(""), Def("7")},
     repo : {Undefined, Def(""), Def("o/r")},
     issueTitle : {Undefined, Def(""), Def("T: x")}]

\* issue titles handed to sanitizeFilename
IssueTitles ==
    {"Fix: bug/crash?", "Plain", "  two \t\n words  ", "a  b", "\\/:*?\"<>|",
     "page \f  break﻿", " \t ", ""}

NoCall == [op |-> "none"]

\* result holds what the applied function returned: a text under `text`, a
\* string or undefined under `value`, readProperties' pair under `block`,
\* parseRepoOverride's pair under `parsed`, settings under `settings`
NoResult == [none |-> TRUE]

\* the engine at rest, while the codec harness runs
EngineIdle ==
    /\ vault = [data |-> "", name |-> "", mtime |-> 1]
    /\ fileData = ""
    /\ issueFromNote = Undefined
    /\ hasFile = TRUE
    /\ remote = InitialRemote
    /\ now = 1
    /\ pc = AllIdle
    /\ last = NoLast
    /\ status = Undefined
    /\ created = <<>>

CodecInit ==
    /\ text \in Texts \cup EmptySegmentTexts
    /\ call = NoCall
    /\ result = NoResult
    /\ EngineIdle

ReadProperties ==
    /\ call = NoCall
    /\ call' = [op |-> "readProperties"]
    /\ result' = [block |-> readProperties(text)]
    /\ UNCHANGED <<text, engineVars>>

RemoveProperties ==
    /\ call = NoCall
    /\ call' = [op |-> "removeProperties"]
    /\ result' = [text |-> removeProperties(text)]
    /\ UNCHANGED <<text, engineVars>>

ReadIssueId ==
    /\ call = NoCall
    /\ call' = [op |-> "readIssueId"]
    /\ result' = [value |-> readIssueId(text)]
    /\ UNCHANGED <<text, engineVars>>

ReadRepo ==
    /\ call = NoCall
    /\ call' = [op |-> "readRepo"]
    /\ result' = [value |-> readRepo(text)]
    /\ UNCHANGED <<text, engineVars>>

ReadIssueTitle ==
    /\ call = NoCall
    /\ call' = [op |-> "readIssueTitle"]
    /\ result' = [value |-> readIssueTitle(text)]
    /\ UNCHANGED <<text, engineVars>>

WriteIssueId ==
    \E v \in Values :
        /\ call = NoCall
        /\ call' = [op |-> "writeIssueId", value |-> v]
        /\ result' = [text |-> writeIssueId(text, v)]
        /\ UNCHANGED <<text, engineVars>>

WriteRepo ==
    \E v \in Values :
        /\ call = NoCall
        /\ call' = [op |-> "writeRepo", value |-> v]
        /\ result' = [text |-> writeRepo(text, v)]
        /\ UNCHANGED <<text, engineVars>>

WriteIssueTitle ==
    \E v \in Titles :
        /\ call = NoCall
        /\ call' = [op |-> "writeIssueTitle", value |-> v]
        /\ result' = [text |-> writeIssueTitle(text, v)]
        /\ UNCHANGED <<text, engineVars>>

WriteAllGithubProperties ==
    \E p \in AllProperties :
        /\ call = NoCall
        /\ call' = [op |-> "writeAllGithubProperties", properties |-> p]
        /\ result' = [text |-> writeAllGithubProperties(text, p)]
        /\ UNCHANGED <<text, engineVars>>

ParseRepoOverride ==
    \E r \in RepoStrings :
        /\ call = NoCall
        /\ call' = [op |-> "parseRepoOverride", repoString |-> r]
        /\ result' = [parsed |-> parseRepoOverride(r)]
        /\ UNCHANGED <<text, engineVars>>

GetEffectiveRepoSettings ==
    /\ call = NoCall
    /\ call' = [op |-> "getEffectiveRepoSettings"]
    /\ result' = [settings |-> getEffectiveRepoSettings(text, Settings)]
    /\ UNCHANGED <<text, engineVars>>

SanitizeFilename ==
    \E t \in IssueTitles :
        /\ call = NoCall
        /\ call' = [op |-> "sanitizeFilename", filename |-> t]
        /\ result' = [text |-> sanitizeFilename(t)]
        /\ UNCHANGED <<text, engineVars>>

CodecNext ==
    \/ ReadProperties
    \/ RemoveProperties
    \/ ReadIssueId
    \/ ReadRepo
    \/ ReadIssueTitle
    \/ WriteIssueId
    \/ WriteRepo
    \/ WriteIssueTitle
    \/ WriteAllGithubProperties
    \/ ParseRepoOverride
    \/ GetEffectiveRepoSettings
    \/ SanitizeFilename

CodecSpec == CodecInit /\ [][CodecNext]_vars

(***************************************************************************)
(* The engine's specification                                              *)
(***************************************************************************)
\* a trigger pressed runs in the first free slot
FreeSlot(s) == pc[s].op = "idle" /\ \A t \in Slots : t < s => pc[t].op # "idle"

\* f, with the action of slot s gone: the slots hold the actions in flight
\* in the order they started
Release(f, s) ==
    [t \in Slots |-> IF t < s THEN f[t]
                     ELSE IF t + 1 \in Slots THEN f[t + 1] ELSE PcIdle]

\* f, with the actions in flight other than that of slot s (0: all) no
\* longer clean: the remote has changed under them
OthersSeeRemote(f, s) ==
    [t \in Slots |-> IF t = s \/ f[t].op = "idle" THEN f[t]
                     ELSE [f[t] EXCEPT !.clean = FALSE]]

\* ... the file has been renamed under them
OthersSeeRename(f, s, name) ==
    [t \in Slots |-> IF t = s \/ f[t].op = "idle" THEN f[t]
                     ELSE [f[t] EXCEPT !.clean = FALSE, !.before.name = name]]

\* ... the content has been stored under them
OthersSeeModify(f, s, data, mtime) ==
    [t \in Slots |-> IF t = s \/ f[t].op = "idle" THEN f[t]
                     ELSE [f[t] EXCEPT !.clean = FALSE, !.before.data = data,
                                       !.before.mtime = mtime]]

Init ==
    /\ text = ""
    /\ call = NoCall
    /\ result = NoResult
    /\ \E d \in DocTexts, m \in {0, 3} :
           /\ vault = [data |-> d, name |-> "note", mtime |-> m]
           /\ fileData = d
           /\ issueFromNote = readIssueId(d)
    /\ hasFile \in BOOLEAN
    /\ remote = InitialRemote
    /\ now = 4
    /\ pc = AllIdle
    /\ last = NoLast
    /\ status = Undefined
    /\ created = <<>>

\* what the operation of slot s leaves in `last` when it completes
Completed(s, outcome, acked) ==
    [NoLast EXCEPT !.op = pc[s].op, !.outcome = outcome, !.acked = acked,
                   !.quiet = pc[s].clean, !.repoKey = RepoKey(pc[s].settings),
                   !.number = pc[s].number, !.original = pc[s].original,
                   !.external = pc[s].external, !.written = pc[s].content,
                   !.remoteAt = pc[s].stamp, !.http = pc[s].http,
                   !.intact = (vault = pc[s].before),
                   !.renameFailed = pc[s].renameFailed, !.oldName = pc[s].before.name,
                   !.sent = pc[s].sent]

\* `this.status = undefined` after pushIssue or pullIssue has returned
statusAfterSync == Undefined

\* the Push button: view/index.ts 270-280, then pushIssue up to its await
PushStart ==
    /\ ~(~TruthyStr(readIssueId(fileData)) /\ ~hasFile)
    /\ \E s \in Slots :
         /\ FreeSlot(s)
         /\ pc' = [pc EXCEPT ![s] = [PcIdle EXCEPT
                     !.op = "push", !.at = "transport", !.sent = 1, !.before = vault,
                     !.issueId = readIssueId(fileData),
                     !.settings = getEffectiveRepoSettings(fileData, Settings),
                     !.kind = IF TruthyStr(readIssueId(fileData)) THEN "update" ELSE "create",
                     !.title = IF hasFile THEN vault.name ELSE "",
                     !.body = removeProperties(fileData)]]
    /\ last' = NoLast
    /\ UNCHANGED <<codecVars, issueFromNote, status, created, vault, fileData, hasFile, remote, now>>

\* a push that sends its request again when the transport throws
PushThrowsRetrying ==
    \E s \in Slots :
      /\ pc[s].op = "push" /\ pc[s].at = "transport"
      /\ pc[s].sent < 2
      /\ pc' = [pc EXCEPT ![s].sent = @ + 1]
      /\ last' = NoLast
      /\ UNCHANGED <<codecVars, issueFromNote, status, created, vault, fileData, hasFile, remote, now>>

\* the transport throws: pushIssue throws
PushThrows ==
    \E s \in Slots :
      /\ pc[s].op = "push" /\ pc[s].at = "transport"
      /\ last' = Completed(s, "error", FALSE)
      /\ pc' = Release(pc, s)
      /\ UNCHANGED <<codecVars, issueFromNote, status, created, vault, fileData, hasFile, remote, now>>

\* the transport answers with another status than 200 / 201 (always
\* possible, and the only answer when the repository or the issue is
\* unknown): pushIssue returns
PushRefused ==
    \E s \in Slots :
      /\ pc[s].op = "push" /\ pc[s].at = "transport"
      /\ last' = Completed(s, "ok", FALSE)
      /\ pc' = Release(pc, s)
      /\ status' = statusAfterSync
      /\ UNCHANGED <<codecVars, issueFromNote, created, vault, fileData, hasFile, remote, now>>

\* the transport creates or updates the issue, stamps it and answers 201 /
\* 200 (a change of the remote, so whatever completed before is no longer
\* quiet and whatever else is in flight no longer clean); updateFile runs
\* up to its await of vault.modify
PushAcknowledged ==
    \E s \in Slots :
      /\ pc[s].op = "push" /\ pc[s].at = "transport"
      /\ now < MaxTime
      /\ RepoKey(pc[s].settings) \in DOMAIN remote
      /\ LET key == RepoKey(pc[s].settings)
             httpStatus == IF pc[s].kind = "create" THEN HTTP_CREATED ELSE HTTP_OK
             issue == [title |-> pc[s].title, body |-> Def(pc[s].body), updated_at |-> now]
         IN  \E n \in 1..(Len(remote[key]) + 1) :
               /\ IF pc[s].kind = "create"
                  THEN /\ n = Len(remote[key]) + 1
                       /\ n <= MaxIssues
                       /\ remote' = [remote EXCEPT ![key] = Append(@, issue)]
                  ELSE /\ n \in IssueNumbers(key, Val(pc[s].issueId))
                       /\ remote' = [remote EXCEPT ![key][n] = issue]
               /\ IF hasFile
                  THEN /\ pc' = OthersSeeRemote(
                                  [pc EXCEPT ![s].at = "modify", ![s].number = n,
                                             ![s].http = httpStatus, ![s].stamp = now,
                                             ![s].original = fileData,
                                             ![s].content = updatedContent(fileData, n, Undefined),
                                             ![s].mtime = modifyMtime(now)], s)
                       /\ last' = NoLast
                  ELSE /\ pc' = Release(OthersSeeRemote(pc, s), s)
                       /\ last' = [Completed(s, "error", TRUE) EXCEPT
                                      !.number = n, !.http = httpStatus, !.remoteAt = now]
      /\ now' = now + 1
      /\ UNCHANGED <<codecVars, issueFromNote, status, created, vault, fileData, hasFile>>

\* the Pull button: view/index.ts 298-315, then pullIssue up to its await.
\* The panel has the button when the text it was drawn from held an issue
\* id, and the button pulls that id; the repository is resolved from the
\* text the editor holds when the button is pressed
PullStart ==
    /\ TruthyStr(issueFromNote)
    /\ \E s \in Slots :
         /\ FreeSlot(s)
         /\ pc' = [pc EXCEPT ![s] = [PcIdle EXCEPT
                     !.op = "pull", !.at = "transport", !.sent = 1, !.kind = "get",
                     !.before = vault,
                     !.issueId = issueFromNote,
                     !.settings = getEffectiveRepoSettings(fileData, Settings)]]
    /\ last' = NoLast
    /\ UNCHANGED <<codecVars, issueFromNote, status, created, vault, fileData, hasFile, remote, now>>

PullThrows ==
    \E s \in Slots :
      /\ pc[s].op \in {"pull", "track"} /\ pc[s].at = "transport"
      /\ last' = Completed(s, "error", FALSE)
      /\ pc' = Release(pc, s)
      /\ UNCHANGED <<codecVars, issueFromNote, status, created, vault, fileData, hasFile, remote, now>>

\* the answer has no issue in it: res.json.number.toString() throws in
\* updateFile, which throws 'Error updating file'
PullRefused ==
    \E s \in Slots :
      /\ pc[s].op \in {"pull", "track"} /\ pc[s].at = "transport"
      /\ last' = Completed(s, "error", FALSE)
      /\ pc' = Release(pc, s)
      /\ UNCHANGED <<codecVars, issueFromNote, status, created, vault, fileData, hasFile, remote, now>>

\* the transport answers 200 with the issue; updateFile runs up to its
\* await of vault.rename (every issue has a title)
PullAnswered ==
    \E s \in Slots :
      /\ pc[s].op \in {"pull", "track"} /\ pc[s].at = "transport"
      /\ \E n \in IssueNumbers(RepoKey(pc[s].settings), Val(pc[s].issueId)) :
           LET issue == remote[RepoKey(pc[s].settings)][n]
           IN  IF hasFile
               THEN /\ pc' = [pc EXCEPT
                                ![s].at = IF issue.title # "" THEN "rename" ELSE "modify",
                                ![s].number = n,
                                ![s].http = HTTP_OK, ![s].stamp = issue.updated_at,
                                ![s].original = fileData,
                                ![s].external = issue.body,
                                ![s].content = updatedContent(fileData, n, issue.body),
                                ![s].mtime = modifyMtime(issue.updated_at),
                                ![s].newName = sanitizeFilename(issue.title)]
                    /\ last' = NoLast
               ELSE /\ pc' = Release(pc, s)
                    /\ last' = [Completed(s, "error", TRUE) EXCEPT !.number = n]
      /\ UNCHANGED <<codecVars, issueFromNote, status, created, vault, fileData, hasFile, remote, now>>

\* vault.rename succeeds
UpdateFileRename ==
    \E s \in Slots :
      /\ pc[s].at = "rename"
      /\ vault' = [vault EXCEPT !.name = pc[s].newName]
      /\ pc' = OthersSeeRename([pc EXCEPT ![s].at = "modify"], s, pc[s].newName)
      /\ last' = NoLast
      /\ UNCHANGED <<codecVars, issueFromNote, status, created, fileData, hasFile, remote, now>>

\* vault.rename throws: caught, the content is still updated
UpdateFileRenameFails ==
    \E s \in Slots :
      /\ pc[s].at = "rename"
      /\ pc' = [pc EXCEPT ![s].at = "modify", ![s].renameFailed = TRUE]
      /\ last' = NoLast
      /\ UNCHANGED <<codecVars, issueFromNote, status, created, vault, fileData, hasFile, remote, now>>

\* vault.modify succeeds: the content and the mtime are stored
UpdateFileModify ==
    \E s \in Slots :
      /\ pc[s].at = "modify"
      /\ vault' = [vault EXCEPT !.data = pc[s].content, !.mtime = pc[s].mtime]
      /\ last' = [Completed(s, "ok", TRUE) EXCEPT !.intact = (vault' = pc[s].before)]
      /\ pc' = Release(OthersSeeModify(pc, s, pc[s].content, pc[s].mtime), s)
      /\ status' = (IF pc[s].op \in {"push", "pull"} THEN statusAfterSync ELSE status)
      /\ UNCHANGED <<codecVars, issueFromNote, created, fileData, hasFile, remote, now>>

\* vault.modify throws: updateFile throws 'Error updating file'
UpdateFileModifyFails ==
    \E s \in Slots :
      /\ pc[s].at = "modify"
      /\ last' = Completed(s, "error", TRUE)
      /\ pc' = Release(pc, s)
      /\ UNCHANGED <<codecVars, issueFromNote, status, created, vault, fileData, hasFile, remote, now>>

\* the step just taken completed a push that stored its document, with
\* no edit on either side since the push began, for the repository the
\* stored document resolves to
PushJustStored ==
    /\ last.op = "push" /\ last.outcome = "ok" /\ last.acked /\ last.quiet
    /\ last.repoKey = RepoKey(getEffectiveRepoSettings(vault.data, Settings))

\* the Fetch button: view/index.ts 225-243, then fetchIssue up to its
\* await of vault.read; pressed right after a push has stored its
\* document, the fetch remembers that push's issue
FetchStart ==
    /\ TruthyStr(readIssueId(fileData)) /\ hasFile
    /\ \E s \in Slots :
         /\ FreeSlot(s)
         /\ pc' = [pc EXCEPT ![s] = [PcIdle EXCEPT
                     !.op = "fetch", !.at = "read", !.kind = "get",
                     !.before = vault,
                     !.number = IF PushJustStored THEN last.number ELSE 0,
                     !.afterPush = PushJustStored,
                     !.issueId = readIssueId(fileData)]]
    /\ last' = NoLast
    /\ UNCHANGED <<codecVars, issueFromNote, status, created, vault, fileData, hasFile, remote, now>>

\* a fetch that resolves the repository from the text the editor holds
FetchReadFromSnapshot ==
    \E s \in Slots :
      /\ pc[s].op = "fetch" /\ pc[s].at = "read"
      /\ pc' = [pc EXCEPT ![s].at = "transport", ![s].sent = @ + 1,
                          ![s].original = vault.data,
                          ![s].settings = getEffectiveRepoSettings(fileData, Settings)]
      /\ last' = NoLast
      /\ UNCHANGED <<codecVars, issueFromNote, status, created, vault, fileData, hasFile, remote, now>>

\* vault.read returns the stored text; the request is sent
FetchRead ==
    \E s \in Slots :
      /\ pc[s].op = "fetch" /\ pc[s].at = "read"
      /\ pc' = [pc EXCEPT ![s].at = "transport", ![s].sent = @ + 1,
                          ![s].original = vault.data,
                          ![s].settings = getEffectiveRepoSettings(vault.data, Settings)]
      /\ last' = NoLast
      /\ UNCHANGED <<codecVars, issueFromNote, status, created, vault, fileData, hasFile, remote, now>>

\* vault.read or the transport throws: caught, fetchIssue returns
\* { date: "Error", status: undefined }
FetchThrows ==
    \E s \in Slots :
      /\ pc[s].op = "fetch"
      /\ last' = [Completed(s, "error", FALSE) EXCEPT !.localAt = vault.mtime]
      /\ pc' = Release(pc, s)
      /\ status' = Undefined
      /\ UNCHANGED <<codecVars, issueFromNote, created, vault, fileData, hasFile, remote, now>>

\* the answer has no issue in it: updated_at is undefined, no comparison
\* holds, fetchIssue returns { date: undefined, status: undefined }
FetchRefused ==
    \E s \in Slots :
      /\ pc[s].op = "fetch" /\ pc[s].at = "transport"
      /\ last' = [Completed(s, "ok", FALSE) EXCEPT !.localAt = vault.mtime]
      /\ pc' = Release(pc, s)
      /\ status' = Undefined
      /\ UNCHANGED <<codecVars, issueFromNote, created, vault, fileData, hasFile, remote, now>>

\* a fetch that stores the remote updated_at as the document's mtime
FetchAnsweredTouching ==
    \E s \in Slots :
      /\ pc[s].op = "fetch" /\ pc[s].at = "transport"
      /\ \E n \in IssueNumbers(RepoKey(pc[s].settings), Val(pc[s].issueId)) :
           LET issue == remote[RepoKey(pc[s].settings)][n]
           IN  /\ vault' = [vault EXCEPT !.mtime = issue.updated_at]
               /\ last' = [Completed(s, "ok", TRUE) EXCEPT
                              !.intact = (vault' = pc[s].before),
                              !.number = n, !.http = HTTP_OK,
                              !.status = fetchStatus(issue.updated_at, vault.mtime),
                              !.date = Def(issue.updated_at),
                              !.remoteAt = issue.updated_at,
                              !.localAt = vault.mtime]
      /\ status' = last'.status
      /\ pc' = Release(pc, s)
      /\ UNCHANGED <<codecVars, issueFromNote, created, fileData, hasFile, remote, now>>

\* the transport answers 200 with the issue; the stored file's mtime is
\* read and compared
FetchAnswered ==
    \E s \in Slots :
      /\ pc[s].op = "fetch" /\ pc[s].at = "transport"
      /\ \E n \in IssueNumbers(RepoKey(pc[s].settings), Val(pc[s].issueId)) :
           LET issue == remote[RepoKey(pc[s].settings)][n]
           IN  last' = [Completed(s, "ok", TRUE) EXCEPT
                          !.number = n, !.http = HTTP_OK,
                          !.status = fetchStatus(issue.updated_at, vault.mtime),
                          !.date = Def(issue.updated_at),
                          !.remoteAt = issue.updated_at,
                          !.localAt = vault.mtime,
                          !.afterPush = /\ pc[s].afterPush /\ pc[s].clean
                                        /\ pc[s].number = n]
      /\ status' = last'.status
      /\ pc' = Release(pc, s)
      /\ UNCHANGED <<codecVars, issueFromNote, created, vault, fileData, hasFile, remote, now>>

\* the user edits the document and the editor saves it; the document as it
\* is without an operation in flight takes the edit too
UserEdit ==
    /\ now < MaxTime
    /\ \E d \in EditedTexts \ {fileData} :
         /\ fileData' = d
         /\ vault' = [vault EXCEPT !.data = d, !.mtime = now]
         /\ pc' = OthersSeeModify(pc, 0, d, now)
    /\ now' = now + 1
    /\ last' = NoLast
    /\ UNCHANGED <<codecVars, issueFromNote, status, created, hasFile, remote>>

\* the host brings the text the editor holds up to date with the stored
\* text
EditorSync ==
    /\ fileData # vault.data
    /\ fileData' = vault.data
    /\ UNCHANGED <<codecVars, issueFromNote, status, created, vault, hasFile, remote, now,
                   pc, last>>

\* draw (view/index.ts 65-331), run by the timer that load or reload has
\* set: the panel is made anew from the text the editor holds, the Pull
\* button with the issue id of that text
Draw ==
    /\ issueFromNote' = readIssueId(fileData)
    /\ UNCHANGED <<codecVars, status, created, vault, fileData, hasFile, remote, now,
                   pc, last>>

\* somebody edits an issue on the remote, in the repository the stored
\* document resolves to
RemoteEdit ==
    /\ now < MaxTime
    /\ \E key \in DOMAIN remote \cap {RepoKey(getEffectiveRepoSettings(vault.data, Settings))},
          b \in RemoteBodies :
         \E n \in 1..Len(remote[key]) :
           /\ remote[key][n].body # b
           /\ remote' = [remote EXCEPT ![key][n].body = b, ![key][n].updated_at = now]
    /\ now' = now + 1
    /\ pc' = OthersSeeRemote(pc, 0)
    /\ last' = NoLast
    /\ UNCHANGED <<codecVars, issueFromNote, status, created, vault, fileData, hasFile>>

(***************************************************************************)
(* The panel's other triggers: changeIssueId and createNewIssueNote        *)
(* (part_001 164-248).                                                     *)
(***************************************************************************)
MaxNotes == 1

\* what the panel's issue-number field holds: nothing, or a number typed
TypedIds == {Undefined, Def("1"), Def("2")}

\* file.file.parent?.path || ''
ParentPaths == {"", "folder"}

\* the crosshair button: view/index.ts 126-132, then changeIssueId and
\* pullIssue up to the await of the transport; the pull's steps follow
TrackStart ==
    \E id \in TypedIds, s \in Slots :
      /\ TruthyStr(id)
      /\ FreeSlot(s)
      /\ pc' = [pc EXCEPT ![s] = [PcIdle EXCEPT
                  !.op = "track", !.at = "transport", !.sent = 1, !.kind = "get",
                  !.before = vault,
                  !.issueId = id,
                  !.settings = getEffectiveRepoSettings(fileData,
                                   getEffectiveRepoSettings(fileData, Settings))]]
      /\ last' = NoLast
      /\ UNCHANGED <<codecVars, issueFromNote, status, created, vault, fileData, hasFile, remote, now>>

\* createNewIssueNote up to the await of the transport; without a file or
\* without an issue id it throws at once, catches and returns false,
\* whatever else is in flight.  The notes made and the notes being made are
\* together at most MaxNotes
CreateNoteStart ==
    /\ \E id \in TypedIds :
         IF ~hasFile \/ ~TruthyStr(id)
         THEN /\ pc' = pc
              /\ last' = [NoLast EXCEPT !.op = "createNote", !.outcome = "error",
                                        !.quiet = TRUE, !.oldName = vault.name]
         ELSE /\ Len(created) + Cardinality({t \in Slots : pc[t].op = "createNote"}) < MaxNotes
              /\ \E s \in Slots :
                   /\ FreeSlot(s)
                   /\ pc' = [pc EXCEPT ![s] = [PcIdle EXCEPT
                               !.op = "createNote", !.at = "transport", !.sent = 1,
                               !.kind = "get",
                               !.before = vault, !.issueId = id,
                               !.settings = getEffectiveRepoSettings(fileData, Settings)]]
              /\ last' = NoLast
    /\ UNCHANGED <<codecVars, issueFromNote, status, created, vault, fileData, hasFile, remote, now>>

\* the transport throws: caught, createNewIssueNote returns false
CreateNoteThrows ==
    \E s \in Slots :
      /\ pc[s].op = "createNote" /\ pc[s].at = "transport"
      /\ last' = Completed(s, "error", FALSE)
      /\ pc' = Release(pc, s)
      /\ UNCHANGED <<codecVars, issueFromNote, status, created, vault, fileData, hasFile, remote, now>>

\* the transport answers another status than 200: createNewIssueNote
\* throws, catches and returns false
CreateNoteRefused ==
    \E s \in Slots :
      /\ pc[s].op = "createNote" /\ pc[s].at = "transport"
      /\ last' = Completed(s, "error", FALSE)
      /\ pc' = Release(pc, s)
      /\ UNCHANGED <<codecVars, issueFromNote, status, created, vault, fileData, hasFile, remote, now>>

\* the transport answers 200 with the issue; createNewIssueNote runs up to
\* its await of vault.create
CreateNoteAnswered ==
    \E s \in Slots :
      /\ pc[s].op = "createNote" /\ pc[s].at = "transport"
      /\ \E n \in IssueNumbers(RepoKey(pc[s].settings), Val(pc[s].issueId)),
            parentPath \in ParentPaths :
           LET issue == remote[RepoKey(pc[s].settings)][n]
           IN  pc' = [pc EXCEPT ![s].at = "create", ![s].number = n, ![s].http = HTTP_OK,
                                ![s].stamp = issue.updated_at,
                                ![s].original = fileData,
                                ![s].external = issue.body,
                                ![s].parent = parentPath,
                                ![s].newName = newNotePath(parentPath, issue.title,
                                                           Val(pc[s].issueId)),
                                ![s].content = newNoteContent(fileData, Val(pc[s].issueId),
                                                              issue.body)]
      /\ last' = NoLast
      /\ UNCHANGED <<codecVars, issueFromNote, status, created, vault, fileData, hasFile, remote, now>>

\* vault.create makes the note; createNewIssueNote runs up to its await of
\* openFile
CreateNoteCreate ==
    \E s \in Slots :
      /\ pc[s].op = "createNote" /\ pc[s].at = "create"
      /\ created' = Append(created, [path |-> pc[s].newName, data |-> pc[s].content])
      /\ pc' = [pc EXCEPT ![s].at = "open"]
      /\ last' = NoLast
      /\ UNCHANGED <<codecVars, issueFromNote, status, vault, fileData, hasFile, remote, now>>

\* openFile returns, or throws and is caught with a notice: either way
\* createNewIssueNote returns true
CreateNoteOpen ==
    \E s \in Slots :
      /\ pc[s].op = "createNote" /\ pc[s].at = "open"
      /\ last' = Completed(s, "ok", TRUE)
      /\ pc' = Release(pc, s)
      /\ UNCHANGED <<codecVars, issueFromNote, status, created, vault, fileData, hasFile, remote, now>>

\* vault.create throws (a file of that path exists): caught,
\* createNewIssueNote returns false
CreateNoteCreateFails ==
    \E s \in Slots :
      /\ pc[s].op = "createNote" /\ pc[s].at = "create"
      /\ last' = Completed(s, "error", TRUE)
      /\ pc' = Release(pc, s)
      /\ UNCHANGED <<codecVars, issueFromNote, status, created, vault, fileData, hasFile, remote, now>>

\* the Push and Fetch buttons, pressed in any order and beside each other,
\* with the user and the remote editing meanwhile
Next ==
    \/ PushStart \/ PushThrows \/ PushRefused \/ PushAcknowledged
    \/ UpdateFileModify \/ UpdateFileModifyFails
    \/ FetchStart \/ FetchRead \/ FetchThrows \/ FetchRefused \/ FetchAnswered
    \/ UserEdit \/ EditorSync \/ RemoteEdit \/ Draw

Spec == Init /\ [][Next]_vars

\* the Pull and Fetch buttons, pressed in any order and beside each other;
\* the issues on the remote have any of the bodies
PullInit ==
    /\ text = ""
    /\ call = NoCall
    /\ result = NoResult
    /\ \E d \in DocTexts, m \in {0, 3} :
           /\ vault = [data |-> d, name |-> "note", mtime |-> m]
           /\ fileData = d
           /\ issueFromNote = readIssueId(d)
    /\ hasFile \in BOOLEAN
    /\ \E b \in RemoteBodies :
           remote = [key \in DOMAIN InitialRemote |->
                        <<[InitialRemote[key][1] EXCEPT !.body = b]>>]
    /\ now = 4
    /\ pc = AllIdle
    /\ last = NoLast
    /\ status = Undefined
    /\ created = <<>>

PullNext ==
    \/ PullStart \/ PullThrows \/ PullRefused \/ PullAnswered
    \/ UpdateFileRename \/ UpdateFileRenameFails
    \/ UpdateFileModify \/ UpdateFileModifyFails
    \/ FetchStart \/ FetchRead \/ FetchThrows \/ FetchRefused \/ FetchAnswered
    \/ EditorSync \/ Draw

PullSpec == PullInit /\ [][PullNext]_vars

\* the three buttons and the crosshair button together, on a document that
\* tracks issue 1 and was stored after the issue was last updated
VerdictInit ==
    /\ text = ""
    /\ call = NoCall
    /\ result = NoResult
    /\ \E d \in {"---\ngithub_issue: 1\n---\nbody"}, m \in {3} :
           /\ vault = [data |-> d, name |-> "note", mtime |-> m]
           /\ fileData = d
           /\ issueFromNote = readIssueId(d)
    /\ hasFile \in BOOLEAN
    /\ remote = InitialRemote
    /\ now = 4
    /\ pc = AllIdle
    /\ last = NoLast
    /\ status = Undefined
    /\ created = <<>>

VerdictNext ==
    \/ PushStart \/ PushThrows \/ PushRefused \/ PushAcknowledged
    \/ PullStart \/ TrackStart \/ PullThrows \/ PullRefused \/ PullAnswered
    \/ UpdateFileRename \/ UpdateFileRenameFails
    \/ UpdateFileModify \/ UpdateFileModifyFails
    \/ FetchStart \/ FetchRead \/ FetchThrows \/ FetchRefused \/ FetchAnswered
    \/ EditorSync \/ Draw

VerdictSpec == VerdictInit /\ [][VerdictNext]_vars

\* the panel's track-by-id, pull-to-new-file and Fetch triggers; the
\* issue of the global repository may have no description
PanelInit ==
    /\ text = ""
    /\ call = NoCall
    /\ result = NoResult
    /\ \E d \in DocTexts :
           /\ vault = [data |-> d, name |-> "note", mtime |-> 3]
           /\ fileData = d
           /\ issueFromNote = readIssueId(d)
    /\ hasFile \in BOOLEAN
    /\ \E b \in {Def("remote text"), Undefined} :
           remote = [InitialRemote EXCEPT !["me/notes"][1].body = b]
    /\ now = 4
    /\ pc = AllIdle
    /\ last = NoLast
    /\ status = Undefined
    /\ created = <<>>

PanelNext ==
    \/ PullThrows \/ PullRefused \/ PullAnswered
    \/ UpdateFileRename \/ UpdateFileRenameFails
    \/ UpdateFileModify \/ UpdateFileModifyFails
    \/ TrackStart
    \/ CreateNoteStart \/ CreateNoteThrows \/ CreateNoteRefused \/ CreateNoteAnswered
    \/ CreateNoteCreate \/ CreateNoteCreateFails \/ CreateNoteOpen
    \/ FetchStart \/ FetchRead \/ FetchThrows \/ FetchRefused \/ FetchAnswered
    \/ EditorSync \/ Draw

PanelSpec == PanelInit /\ [][PanelNext]_vars

(***************************************************************************)
(* What the specification calls a front-matter block: the first line is    *)
(* the delimiter and a later line is the delimiter; its lines are those    *)
(* strictly between the two, the body is what follows the second.          *)
(***************************************************************************)
LinesOf(t) == Split(t, "\n")

ClosingLine(t) ==
    Min({i \in 2..Len(LinesOf(t)) : LinesOf(t)[i] = PROPERTIES_DELIMITER})

HasBlock(t) ==
    /\ LinesOf(t)[1] = PROPERTIES_DELIMITER
    /\ \E i \in 2..Len(LinesOf(t)) : LinesOf(t)[i] = PROPERTIES_DELIMITER

BlockLines(t) == SubSeq(LinesOf(t), 2, ClosingLine(t) - 1)

BodyOf(t) == Join(SubSeq(LinesOf(t), ClosingLine(t) + 1, Len(LinesOf(t))), "\n")

\* the key of a block line: the text before its first colon
KeyOf(line) == Split(line, ":")[1]

\* the value of a block line: the text after its first colon, trimmed
ValueOf(line) == Trim(Substring(line, Len(KeyOf(line)) + 1))

TrackedKeys ==
    {GITHUB_ISSUE_PROPERTY_CODE, GITHUB_REPO_PROPERTY_CODE, GITHUB_ISSUE_TITLE_PROPERTY_CODE}

HasLine(seq, line) == \E i \in 1..Len(seq) : seq[i] = line

HasKey(seq, key) == \E i \in 1..Len(seq) : KeyOf(seq[i]) = key

\* the value a block holds for a key, or undefined
ValueFor(seq, key) ==
    LET hits == {i \in 1..Len(seq) : KeyOf(seq[i]) = key}
    IN  IF hits = {} THEN Undefined ELSE Def(ValueOf(seq[Min(hits)]))

\* C1: writeAllGithubProperties keeps every block line whose key is not
\* exactly one of the three tracked keys, with identical text.
C1_UntrackedKeysPreserved ==
    (call.op = "writeAllGithubProperties" /\ HasBlock(text)) =>
        \A i \in 1..Len(BlockLines(text)) :
            KeyOf(BlockLines(text)[i]) \notin TrackedKeys =>
                HasLine(LinesOf(result.text), BlockLines(text)[i])

\* C5: readProperties returns absent unless the first line is the delimiter
\* and a later line is the delimiter; an opening delimiter with no closing
\* one is no block.
C5_AbsentUnlessClosedBlock ==
    (call.op = "readProperties" /\ ~HasBlock(text)) =>
        result.block.properties = Undefined

\* C6: for a text whose first two lines are both the delimiter,
\* readProperties returns a present block with no lines.
C6_EmptyBlockIsPresent ==
    (/\ call.op = "readProperties"
     /\ Len(LinesOf(text)) >= 2
     /\ LinesOf(text)[1] = PROPERTIES_DELIMITER
     /\ LinesOf(text)[2] = PROPERTIES_DELIMITER) =>
        result.block.properties = Def(<<>>)

\* C7: removeProperties returns exactly the lines after the closing
\* delimiter for every text with a block (an empty block included), and the
\* input unchanged when there is no block.
C7_RemoveLeavesBody ==
    call.op = "removeProperties" =>
        result.text = (IF HasBlock(text) THEN BodyOf(text) ELSE text)

\* C8: for every text with a well-formed block and every value v, reading a
\* tracked field from the result of its single-field writer returns v.
C8_ReadAfterWrite ==
    HasBlock(text) =>
        /\ call.op = "writeIssueId" => readIssueId(result.text) = Def(call.value)
        /\ call.op = "writeRepo" => readRepo(result.text) = Def(call.value)
        /\ call.op = "writeIssueTitle" => readIssueTitle(result.text) = Def(call.value)

\* C9: a title holding a special character, a backslash or a newline is
\* written in double quotes with every inner quote as backslash-quote, any
\* other title is written bare, and readIssueTitle returns the original
\* title from the written block in every case.
NeedsQuotes(title) ==
    \E i \in 1..Len(title) : CharAt(title, i) \in YamlSpecialChars \cup {"\n"}

QuotedForm(title) == "\"" \o ReplaceAll(title, "\"", "\\\"") \o "\""

C9_TitleEscapingRoundTrips ==
    call.op = "writeIssueTitle" =>
        /\ Includes(result.text, GITHUB_ISSUE_TITLE_PROPERTY_CODE \o ": "
                \o (IF NeedsQuotes(call.value) THEN QuotedForm(call.value) ELSE call.value)
                \o "\n" \o PROPERTIES_DELIMITER)
        /\ readIssueTitle(result.text) = Def(call.value)

\* C10: a tracked field passed to writeAllGithubProperties as the empty
\* string leaves no line for its key in the output block, and a field
\* passed as undefined keeps the value the input block holds for the key.
InputBlock(t) == IF HasBlock(t) THEN BlockLines(t) ELSE <<>>

SuppliedFor(p, key) ==
    IF key = GITHUB_ISSUE_PROPERTY_CODE THEN p.issueId
    ELSE IF key = GITHUB_REPO_PROPERTY_CODE THEN p.repo
    ELSE p.issueTitle

C10_ClearedIsNotKept ==
    call.op = "writeAllGithubProperties" =>
        \A key \in TrackedKeys :
            /\ SuppliedFor(call.properties, key) = Def("") =>
                   ~HasKey(BlockLines(result.text), key)
            /\ SuppliedFor(call.properties, key) = Undefined =>
                   ValueFor(BlockLines(result.text), key) = ValueFor(InputBlock(text), key)

\* C2: after a successful pull the repo override of the written document
\* equals the override of the local document the pull started from (absent
\* stays absent), whatever the fetched remote body holds.
C2_PullKeepsLocalOverride ==
    (last.op = "pull" /\ last.outcome = "ok") =>
        readRepo(last.written) = readRepo(last.original)

\* C3: when a push was acknowledged and the document written, and nothing
\* was edited locally or on the remote since the push began, the stored
\* modification time equals the updated_at the remote reported; and a
\* fetch of the pushed issue answered next, still with no edit on either
\* side, returns neither can-pull nor can-push.
C3_PushAlignsTimestamps ==
    /\ (last.op = "push" /\ last.outcome = "ok" /\ last.acked /\ last.quiet) =>
           /\ last.http \in {HTTP_OK, HTTP_CREATED}
           /\ vault.mtime = last.remoteAt
           /\ remote[last.repoKey][last.number].updated_at = last.remoteAt
    /\ (last.op = "fetch" /\ last.outcome = "ok" /\ last.acked /\ last.afterPush) =>
           last.status = Undefined

C3_FetchRightAfterPush ==
    /\ last.op = "fetch" /\ last.outcome = "ok" /\ last.acked /\ last.afterPush
    /\ last.remoteAt = vault.mtime
    /\ last.status = Undefined

\* C4: an answered fetch returns can-pull when the remote updated_at is
\* strictly greater than the stored modification time, can-push when it is
\* strictly less, and no verdict when the two are equal.
C4_VerdictFromTimestamps ==
    (last.op = "fetch" /\ last.outcome = "ok" /\ last.acked) =>
        last.status = IF last.remoteAt > last.localAt THEN Def(CanPull)
                      ELSE IF last.remoteAt < last.localAt THEN Def(CanPush)
                      ELSE Undefined

\* C11: for each tracked key not supplied to writeAllGithubProperties, the
\* value its reader returns from the output equals the value it returns
\* from the input, and a tracked key with no line in the input block has
\* no line in the output block.
ReadFor(t, key) ==
    IF key = GITHUB_ISSUE_PROPERTY_CODE THEN readIssueId(t)
    ELSE IF key = GITHUB_REPO_PROPERTY_CODE THEN readRepo(t)
    ELSE readIssueTitle(t)

C11_UnsuppliedCarriedForward ==
    call.op = "writeAllGithubProperties" =>
        \A key \in TrackedKeys :
            SuppliedFor(call.properties, key) = Undefined =>
                /\ ReadFor(result.text, key) = ReadFor(text, key)
                /\ ~HasKey(InputBlock(text), key) =>
                       ~HasKey(BlockLines(result.text), key)

\* C12: the output of writeAllGithubProperties is the delimiter, the
\* untracked lines of the input block in their order, then at most one line
\* each for github_issue, github_repo and github_issue_title in that order,
\* and the delimiter.
UntrackedLines(seq) ==
    LET Untracked(line) == KeyOf(line) \notin TrackedKeys
    IN  SelectSeq(seq, Untracked)

KeyRank(key) ==
    IF key = GITHUB_ISSUE_PROPERTY_CODE THEN 1
    ELSE IF key = GITHUB_REPO_PROPERTY_CODE THEN 2
    ELSE IF key = GITHUB_ISSUE_TITLE_PROPERTY_CODE THEN 3
    ELSE 0

C12_OutputShape ==
    call.op = "writeAllGithubProperties" =>
        LET out == LinesOf(result.text)
            untracked == UntrackedLines(InputBlock(text))
            n == Len(untracked)
        IN  /\ Len(out) >= n + 2
            /\ out[1] = PROPERTIES_DELIMITER
            /\ out[Len(out)] = PROPERTIES_DELIMITER
            /\ SubSeq(out, 2, n + 1) = untracked
            /\ \A i \in (n + 2)..(Len(out) - 1) : KeyRank(KeyOf(out[i])) > 0
            /\ \A i, j \in (n + 2)..(Len(out) - 1) :
                   i < j => KeyRank(KeyOf(out[i])) < KeyRank(KeyOf(out[j]))

\* C13: parseRepoOverride of a string with a slash gives the trimmed text
\* before the first slash as owner and the trimmed text after it, further
\* slashes included, as repo; a string with no slash gives only repo;
\* undefined gives neither.
BeforeSlash(str) == Split(str, "/")[1]

AfterSlash(str) == Substring(str, Len(BeforeSlash(str)) + 1)

SplitAtFirstSlash(repoString) ==
    IF repoString = Undefined THEN [owner |-> Undefined, repo |-> Undefined]
    ELSE IF Includes(Val(repoString), "/")
    THEN [owner |-> Def(Trim(BeforeSlash(Val(repoString)))),
          repo |-> Def(Trim(AfterSlash(Val(repoString))))]
    ELSE [owner |-> Undefined, repo |-> Def(Trim(Val(repoString)))]

C13_SplitsAtFirstSlash ==
    call.op = "parseRepoOverride" =>
        result.parsed = SplitAtFirstSlash(call.repoString)

\* C14: getEffectiveRepoSettings takes owner and repo from the document's
\* github_repo value when it has the owner/repo form, only repo when it is
\* bare, both from the global settings when the block has no github_repo
\* key; the token is the global token.
C14_EffectiveSettings ==
    call.op = "getEffectiveRepoSettings" =>
        LET override == SplitAtFirstSlash(ValueFor(InputBlock(text), GITHUB_REPO_PROPERTY_CODE))
        IN  /\ result.settings.owner =
                   (IF IsDef(override.owner) THEN Val(override.owner) ELSE Settings.owner)
            /\ result.settings.repo =
                   (IF IsDef(override.repo) THEN Val(override.repo) ELSE Settings.repo)
            /\ result.settings.token = Settings.token

\* C15: when the transport call of a push, pull or fetch fails (it throws
\* or answers a non-success status), or a storage call of the operation
\* fails, the document's content, file name and modification time are what
\* they were when the operation started.
C15_FailureLeavesDocument ==
    (last.op # "none" /\ (~last.acked \/ last.outcome = "error")) => last.intact

\* C16: a push, pull or fetch whose transport call throws or answers a
\* non-success status ends with an error for its caller.
C16_TransportFailureSurfaced ==
    (last.op # "none" /\ ~last.acked) => last.outcome = "error"

\* C17: a push with no issue id of a document with no front-matter block
\* asks the transport to create an issue whose body is the whole document
\* text, and after the 201 the text written is a block whose only line is
\* github_issue: <returned number>, followed by the original text.
BlockWithOnlyIssue(number) ==
    Join(<<PROPERTIES_DELIMITER,
           GITHUB_ISSUE_PROPERTY_CODE \o ": " \o NumberToString(number),
           PROPERTIES_DELIMITER>>, "\n")

C17_FirstPushAddsOnlyIssueId ==
    /\ \A s \in Slots :
         (/\ pc[s].op = "push" /\ pc[s].at = "transport" /\ pc[s].clean
          /\ pc[s].issueId = Undefined /\ ~HasBlock(fileData)) =>
             (pc[s].kind = "create" /\ pc[s].body = fileData)
    /\ (/\ last.op = "push" /\ last.outcome = "ok" /\ last.acked
        /\ last.http = HTTP_CREATED /\ ~HasBlock(last.original)) =>
           last.written = BlockWithOnlyIssue(last.number) \o "\n" \o last.original

\* C18: a push with an issue id asks the transport to update that issue,
\* never to create one; the text and the mtime handed to the storage after
\* the 200 hold the id the push started with and the reported updated_at,
\* and they are what is stored when the push has completed.
C18_UpdateKeepsIssueId ==
    /\ \A s \in Slots :
         /\ (pc[s].op = "push" /\ TruthyStr(pc[s].issueId)) => pc[s].kind = "update"
         /\ (pc[s].op = "push" /\ pc[s].kind = "update" /\ pc[s].at = "modify") =>
                /\ pc[s].http = HTTP_OK
                /\ NumberToString(pc[s].number) = Val(pc[s].issueId)
                /\ readIssueId(pc[s].content) = pc[s].issueId
                /\ pc[s].mtime = pc[s].stamp
    /\ (/\ last.op = "push" /\ last.outcome = "ok" /\ last.acked
        /\ last.http = HTTP_OK /\ last.quiet) =>
           /\ readIssueId(vault.data) = readIssueId(last.original)
           /\ vault.mtime = last.remoteAt

C18_UpdatePushWritten ==
    /\ last.op = "push" /\ last.outcome = "ok" /\ last.acked
    /\ last.http = HTTP_OK /\ last.quiet
    /\ readIssueId(last.original) = Def("1")
    /\ readIssueId(vault.data) = Def("1")
    /\ vault.mtime = last.remoteAt

\* C19: readIssueId returns the trimmed text after the first colon of the
\* block line whose key is github_issue, and undefined when the block has
\* no line with that key, a block with a github_issue_title line included.
C19_ReadIssueIdByKey ==
    call.op = "readIssueId" =>
        result.value = ValueFor(InputBlock(text), GITHUB_ISSUE_PROPERTY_CODE)

\* C20: writeIssueId, writeRepo and writeIssueTitle keep every line of the
\* existing block whose key is not their own, the lines of the other two
\* tracked keys included, and leave exactly one line with their own key; a
\* text with no block is treated as one with an empty block.
OwnKey(op) ==
    IF op = "writeIssueId" THEN GITHUB_ISSUE_PROPERTY_CODE
    ELSE IF op = "writeRepo" THEN GITHUB_REPO_PROPERTY_CODE
    ELSE GITHUB_ISSUE_TITLE_PROPERTY_CODE

C20_SingleWritersKeepOtherLines ==
    call.op \in {"writeIssueId", "writeRepo", "writeIssueTitle"} =>
        LET in == InputBlock(text)
            out == BlockLines(result.text)
        IN  /\ \A i \in 1..Len(in) :
                   KeyOf(in[i]) # OwnKey(call.op) => HasLine(out, in[i])
            /\ Cardinality({i \in 1..Len(out) : KeyOf(out[i]) = OwnKey(call.op)}) = 1

\* the text a reader of the document sees below its front-matter block
DocumentBody(t) == IF HasBlock(t) THEN BodyOf(t) ELSE t

\* the body text of a remote issue; an issue without a description has none
RemoteBodyText(body) == IF IsDef(body) THEN Val(body) ELSE ""

\* C21: after a successful pull the body of the written document equals the
\* body of the pulled issue, its github_issue value is the pulled issue's
\* number, and, with no edit since the pull began, the stored modification
\* time is the remote updated_at.
C21_PullMirrorsRemote ==
    (last.op = "pull" /\ last.outcome = "ok" /\ last.acked) =>
        /\ DocumentBody(last.written) = RemoteBodyText(last.external)
        /\ readIssueId(last.written) = Def(NumberToString(last.number))
        /\ last.quiet => vault.mtime = last.remoteAt

\* C22: the name sanitizeFilename returns holds none of \ / : * ? " < > |,
\* holds no whitespace other than single spaces between two other
\* characters (every run collapsed, both ends trimmed), and is never empty;
\* "Fix: bug/crash?" gives "Fix_ bug_crash_".
C22_SanitizedNameIsSafe ==
    call.op = "sanitizeFilename" =>
        LET name == result.text
        IN  /\ name # ""
            /\ \A i \in 1..Len(name) :
                   /\ CharAt(name, i) \notin InvalidFilenameChars
                   /\ CharAt(name, i) \in Whitespace =>
                          /\ CharAt(name, i) = " "
                          /\ 1 < i /\ i < Len(name)
                          /\ CharAt(name, i + 1) \notin Whitespace
            /\ call.filename = "Fix: bug/crash?" => name = "Fix_ bug_crash_"

C22_ExampleSanitized ==
    /\ call.op = "sanitizeFilename"
    /\ call.filename = "Fix: bug/crash?"
    /\ result.text = "Fix_ bug_crash_"

\* the owner and repo segments of a document's override when the override
\* has the owner/repo form
OverrideSegments(t) ==
    SplitAtFirstSlash(ValueFor(InputBlock(t), GITHUB_REPO_PROPERTY_CODE))

HasEmptySegment(t) ==
    /\ IsDef(OverrideSegments(t).owner)
    /\ Val(OverrideSegments(t).owner) = "" \/ Val(OverrideSegments(t).repo) = ""

\* C28: for a document whose override splits into an empty owner or an
\* empty repo segment, getEffectiveRepoSettings returns the segments as they
\* are, the empty string included, not the global setting.
C28_EmptySegmentPassesThrough ==
    (call.op = "getEffectiveRepoSettings" /\ HasEmptySegment(text)) =>
        /\ result.settings.owner = Val(OverrideSegments(text).owner)
        /\ result.settings.repo = Val(OverrideSegments(text).repo)

\* C28 as the code has it: an empty owner or repo segment of the override
\* is replaced by the global owner or repo, a non-empty segment is used as
\* it is, and the token is the global token.
C28_EmptySegmentFallsBack ==
    (call.op = "getEffectiveRepoSettings" /\ HasEmptySegment(text)) =>
        /\ result.settings.owner =
               (IF Val(OverrideSegments(text).owner) = "" THEN Settings.owner
                ELSE Val(OverrideSegments(text).owner))
        /\ result.settings.repo =
               (IF Val(OverrideSegments(text).repo) = "" THEN Settings.repo
                ELSE Val(OverrideSegments(text).repo))
        /\ result.settings.token = Settings.token

C28_EmptyOwnerResolved ==
    /\ call.op = "getEffectiveRepoSettings"
    /\ HasEmptySegment(text)
    /\ Val(OverrideSegments(text).owner) = ""
    /\ Val(OverrideSegments(text).repo) = "widgets"
    /\ result.settings = [owner |-> Settings.owner, repo |-> "widgets", token |-> Settings.token]

\* C24: a fetch never changes the stored document: while it is in flight
\* and when it has completed, whether it succeeded or failed, the content,
\* the name and the modification time are what they would be without the
\* fetch (edits and other operations' writes meanwhile included).
C24_FetchLeavesDocument ==
    /\ \A s \in Slots : pc[s].op = "fetch" => vault = pc[s].before
    /\ last.op = "fetch" => last.intact

C24_FetchAnsweredIntact ==
    /\ last.op = "fetch" /\ last.outcome = "ok" /\ last.acked
    /\ last.status = Def(CanPull)
    /\ last.intact
    /\ vault.data = last.original

\* the repository the specification resolves for a document: the owner and
\* repo of its override where it has them, the global ones otherwise
StoredRepoKey(t) ==
    LET o == OverrideSegments(t)
    IN  RepoKey([owner |-> IF IsDef(o.owner) /\ Val(o.owner) # ""
                           THEN Val(o.owner) ELSE Settings.owner,
                 repo |-> IF IsDef(o.repo) /\ Val(o.repo) # ""
                          THEN Val(o.repo) ELSE Settings.repo,
                 token |-> Settings.token])

\* C29: the request a fetch sends goes to the repository resolved from the
\* override in the stored content at the time fetch reads the storage, also
\* when the text the panel holds has another override or none.
C29_FetchQueriesStoredOverride ==
    \A s \in Slots :
      (pc[s].op = "fetch" /\ pc[s].at = "transport") =>
          RepoKey(pc[s].settings) = StoredRepoKey(pc[s].original)

C29_StoredOverrideDiffers ==
    \E s \in Slots :
      /\ pc[s].op = "fetch" /\ pc[s].at = "transport"
      /\ pc[s].original = vault.data
      /\ RepoKey(pc[s].settings) = StoredRepoKey(vault.data)
      /\ StoredRepoKey(vault.data) # StoredRepoKey(fileData)

\* C25: when the rename of a pull fails the pull reports no error and goes
\* on to the content update, and when that update is stored the document
\* has the new tracked block with the pulled issue's number, the
\* remote body as its body, the remote updated_at as its modification time
\* (no edit since the pull began), and the name it had before the pull.
C25_RenameFailureNotFatal ==
    /\ \A s \in Slots :
         (pc[s].op = "pull" /\ pc[s].renameFailed) =>
             /\ pc[s].at = "modify"
             /\ vault.name = pc[s].before.name
    /\ (last.op = "pull" /\ last.renameFailed /\ last.outcome = "ok" /\ pc = AllIdle) =>
           /\ vault.name = last.oldName
           /\ readIssueId(last.written) = Def(NumberToString(last.number))
           /\ DocumentBody(last.written) = RemoteBodyText(last.external)
           /\ last.quiet => (vault.data = last.written /\ vault.mtime = last.remoteAt)

\* C27: the step that completes a fetch leaves the panel holding the
\* verdict the fetch returned (Fetched); the step that completes a push or
\* a pull, the pull the crosshair button runs included, leaves it holding
\* none (Tracked, verdict unknown); no other step changes what the panel
\* holds, and a verdict held is can-pull or can-push.
C27_VerdictLifecycle ==
    [][/\ last'.op = "fetch" => status' = last'.status
       /\ (last'.op \in {"push", "pull", "track"} /\ last'.outcome = "ok")
              => status' = Undefined
       /\ IsDef(status') => Val(status') \in {CanPull, CanPush}
       /\ status' # status =>
              \/ last'.op = "fetch"
              \/ /\ last'.op \in {"push", "pull", "track"} /\ last'.outcome = "ok"
                 /\ status' = Undefined]_vars

\* the tracked block the specification gives a note made from an issue: the
\* requested id and, when the current document has one, its override
ExpectedNoteBlock(id, doc) ==
    LET override == ValueFor(InputBlock(doc), GITHUB_REPO_PROPERTY_CODE)
    IN  Join(<<PROPERTIES_DELIMITER, GITHUB_ISSUE_PROPERTY_CODE \o ": " \o id>>
             \o (IF IsDef(override)
                 THEN <<GITHUB_REPO_PROPERTY_CODE \o ": " \o Val(override)>>
                 ELSE <<>>)
             \o <<PROPERTIES_DELIMITER>>, "\n")

\* a path directly inside the parent location
InParent(path, parentPath) ==
    LET prefix == IF parentPath = "" THEN "" ELSE parentPath \o "/"
    IN  /\ StartsWith(path, prefix)
        /\ Len(path) > Len(prefix)
        /\ ~Includes(Substring(path, Len(prefix)), "/")

\* C23: createNewIssueNote leaves the current document as it is; after a
\* 200 answer, when the storage makes the note, it adds exactly one
\* document, directly inside the current document's parent, whose text is
\* the block with the requested id and the current document's override (no
\* github_repo line when it has none), followed, with or without a blank
\* line between, by the remote body, and then returns true; otherwise it
\* adds no document and returns false.
C23_NewNoteFromIssue ==
    [][/\ \A s \in Slots :
            /\ (pc[s].op = "createNote" /\ pc[s].at # "open"
                 /\ pc' = [pc EXCEPT ![s].at = "open"]) =>
                  /\ pc[s].at = "create"
                  /\ vault' = vault
                  /\ Len(created') = Len(created) + 1
                  /\ SubSeq(created', 1, Len(created)) = created
                  /\ LET note == created'[Len(created')]
                         block == ExpectedNoteBlock(Val(pc[s].issueId), pc[s].original)
                         body == RemoteBodyText(pc[s].external)
                     IN  /\ InParent(note.path, pc[s].parent)
                         /\ note.data \in {block \o "\n" \o body,
                                           block \o "\n\n" \o body}
            /\ (pc[s].op = "createNote" /\ pc' = Release(pc, s)
                 /\ last'.op = "createNote") =>
                  /\ vault' = vault
                  /\ created' = created
                  /\ last'.outcome = (IF pc[s].at = "open" THEN "ok" ELSE "error")
       /\ (pc' = pc /\ last'.op = "createNote" /\ last' # last) =>
              /\ vault' = vault
              /\ created' = created
              /\ last'.outcome = "error"
       /\ created' # created =>
              \E s \in Slots : /\ pc[s].op = "createNote" /\ pc[s].at = "create"
                                /\ pc' = [pc EXCEPT ![s].at = "open"]]_vars

\* C30: while an action started from the panel is in flight no other
\* action on the document is started, so no two are in flight together.
C30_OneOperationAtATime ==
    \E s \in Slots : pc[s].op = "idle"

(***************************************************************************)
(* Every caller of the transport together: the Push, Pull and Fetch        *)
(* buttons and pull-to-new-file on a document nobody else                  *)
(* edits meanwhile, pressed in any order and beside each other.            *)
(***************************************************************************)
InvocationInit ==
    /\ text = ""
    /\ call = NoCall
    /\ result = NoResult
    /\ \E d \in {"---\ngithub_issue: 1\n---\nbody"} :
           /\ vault = [data |-> d, name |-> "note", mtime |-> 3]
           /\ fileData = d
           /\ issueFromNote = readIssueId(d)
    /\ hasFile \in BOOLEAN
    /\ remote = InitialRemote
    /\ now = 4
    /\ pc = AllIdle
    /\ last = NoLast
    /\ status = Undefined
    /\ created = <<>>

InvocationNext ==
    \/ PushStart \/ PullStart \/ FetchStart \/ CreateNoteStart
    \/ PushThrows \/ PushRefused \/ PushAcknowledged
    \/ PullThrows \/ PullRefused \/ PullAnswered
    \/ UpdateFileRename \/ UpdateFileRenameFails
    \/ UpdateFileModify \/ UpdateFileModifyFails
    \/ FetchRead \/ FetchThrows \/ FetchRefused \/ FetchAnswered
    \/ CreateNoteThrows \/ CreateNoteRefused \/ CreateNoteAnswered
    \/ CreateNoteCreate \/ CreateNoteCreateFails \/ CreateNoteOpen
    \/ EditorSync \/ Draw

InvocationSpec == InvocationInit /\ [][InvocationNext]_vars

\* the requests of the invocation in flight that the transport has not
\* answered yet
Outstanding(s) == IF pc[s].at = "transport" THEN 1 ELSE 0

\* C31: an invocation of push, fetch, pull or createNewIssueNote sends at
\* most one request to the transport, in flight and counted when it has
\* ended (failed or not) alike, and never has more than one unanswered; a
\* request after a failure belongs to a new invocation, whose count starts
\* again.
C31_OneRequestPerInvocation ==
    /\ last.sent <= 1
    /\ \A s \in Slots :
         /\ pc[s].sent <= 1
         /\ Outstanding(s) <= pc[s].sent
         /\ pc[s].op = "idle" => pc[s].sent = 0

\* a push whose one request threw has ended: nothing is in flight, no
\* request is outstanding
C31_FailedPushHasEnded ==
    /\ last.op = "push" /\ last.outcome = "error" /\ ~last.acked /\ last.sent = 1
    /\ pc = AllIdle

(***************************************************************************)
(* The panel's two text fields that write to the document: the issue title *)
(* and the repository override (view/index.ts 155-212).                    *)
(***************************************************************************)
\* what is typed into the title field and into the override field
FieldTitles == {"New title", "He said \"hi\": ok", ""}
FieldRepos == {"acme/widgets", "widgets", ""}

\* the text the title field's onChange hands to vault.modify
titleChangeData(data, val) ==
    writeAllGithubProperties(data,
        [issueId |-> readIssueId(data), repo |-> readRepo(data), issueTitle |-> Def(val)])

\* the text the override field's onChange hands to vault.modify
repoChangeData(data, val) ==
    writeAllGithubProperties(data,
        [issueId |-> readIssueId(data), repo |-> Def(val), issueTitle |-> Undefined])

\* the title field changes, at a time of its own as the user's edit of the
\* document does: without a file a notice only; else the text to store is
\* computed from the text the editor holds and vault.modify is awaited
TitleChange ==
    /\ now < MaxTime
    /\ \E val \in FieldTitles :
         IF hasFile
         THEN /\ \E s \in Slots :
                   /\ FreeSlot(s)
                   /\ pc' = [pc EXCEPT ![s] = [PcIdle EXCEPT
                               !.op = "title", !.at = "store", !.before = vault,
                               !.original = fileData,
                               !.content = titleChangeData(fileData, val)]]
              /\ last' = NoLast
         ELSE /\ pc' = pc
              /\ last' = [NoLast EXCEPT !.op = "title", !.outcome = "error",
                                        !.original = fileData, !.oldName = vault.name]
    /\ now' = now + 1
    /\ UNCHANGED <<codecVars, issueFromNote, status, created, vault, fileData, hasFile,
                   remote>>

\* the override field changes
RepoChange ==
    /\ now < MaxTime
    /\ \E val \in FieldRepos :
         IF hasFile
         THEN /\ \E s \in Slots :
                   /\ FreeSlot(s)
                   /\ pc' = [pc EXCEPT ![s] = [PcIdle EXCEPT
                               !.op = "repo", !.at = "store", !.before = vault,
                               !.original = fileData,
                               !.content = repoChangeData(fileData, val)]]
              /\ last' = NoLast
         ELSE /\ pc' = pc
              /\ last' = [NoLast EXCEPT !.op = "repo", !.outcome = "error",
                                        !.original = fileData, !.oldName = vault.name]
    /\ now' = now + 1
    /\ UNCHANGED <<codecVars, issueFromNote, status, created, vault, fileData, hasFile,
                   remote>>

\* vault.modify of a field change returns: the text is stored, at the time
\* it is, and the redraw is scheduled
FieldModify ==
    \E s \in Slots :
      /\ pc[s].op \in {"title", "repo"} /\ pc[s].at = "store"
      /\ vault' = [vault EXCEPT !.data = pc[s].content, !.mtime = now]
      /\ last' = [NoLast EXCEPT !.op = pc[s].op, !.outcome = "ok",
                                !.original = pc[s].original,
                                !.written = pc[s].content,
                                !.oldName = vault.name]
      /\ pc' = Release(OthersSeeModify(pc, s, pc[s].content, now), s)
      /\ UNCHANGED <<codecVars, issueFromNote, status, created, fileData, hasFile, remote, now>>

\* vault.modify throws: the handler's promise rejects, nothing is stored
FieldModifyFails ==
    \E s \in Slots :
      /\ pc[s].op \in {"title", "repo"} /\ pc[s].at = "store"
      /\ last' = [NoLast EXCEPT !.op = pc[s].op, !.outcome = "error",
                                !.original = pc[s].original, !.oldName = vault.name]
      /\ pc' = Release(pc, s)
      /\ UNCHANGED <<codecVars, issueFromNote, status, created, vault, fileData, hasFile, remote, now>>

\* the two fields changed one after the other or beside each other, on
\* any of the documents
FieldInit ==
    /\ text = ""
    /\ call = NoCall
    /\ result = NoResult
    /\ \E d \in DocTexts :
           /\ vault = [data |-> d, name |-> "note", mtime |-> 2]
           /\ fileData = d
           /\ issueFromNote = readIssueId(d)
    /\ hasFile \in BOOLEAN
    /\ remote = InitialRemote
    /\ now = 3
    /\ pc = AllIdle
    /\ last = NoLast
    /\ status = Undefined
    /\ created = <<>>

FieldNext ==
    \/ TitleChange \/ RepoChange
    \/ FieldModify \/ FieldModifyFails
    \/ EditorSync \/ Draw

FieldSpec == FieldInit /\ [][FieldNext]_vars

\* C32: a step in which the title field or the override field stores the
\* document leaves the body, the text after the block's closing delimiter
\* (the whole text when there is no block), as it was stored before.
C32_FieldEditKeepsBody ==
    [][(last'.op \in {"title", "repo"} /\ last'.outcome = "ok" /\ last' # last)
        => DocumentBody(vault'.data) = DocumentBody(vault.data)]_vars

\* the keys a pull is to leave alone: every untracked key and the title
KeptByPull(key) == key \notin {GITHUB_ISSUE_PROPERTY_CODE, GITHUB_REPO_PROPERTY_CODE}

\* C33: after a successful pull every line of the local document's block
\* whose key is untracked or is github_issue_title is in the block of the
\* written document, with the same key and the same value.
C33_PullKeepsOtherLines ==
    (last.op = "pull" /\ last.outcome = "ok" /\ last.acked /\ HasBlock(last.original)) =>
        \A i \in 1..Len(BlockLines(last.original)) :
            LET line == BlockLines(last.original)[i]
            IN  KeptByPull(KeyOf(line)) =>
                    /\ HasBlock(last.written)
                    /\ \E j \in 1..Len(BlockLines(last.written)) :
                         /\ KeyOf(BlockLines(last.written)[j]) = KeyOf(line)
                         /\ ValueOf(BlockLines(last.written)[j]) = ValueOf(line)

\* C34: without a file handle no push and no pull has a request at the
\* transport, and one that has ended has failed with no request sent and
\* nothing acknowledged by the remote.
C34_NoHandleNoRequest ==
    ~hasFile =>
        /\ \A s \in Slots : pc[s].op \in {"push", "pull"} => pc[s].sent = 0
        /\ last.op \in {"push", "pull"} =>
               /\ last.outcome = "error"
               /\ last.sent = 0
               /\ ~last.acked

(***************************************************************************)
(* Pushes only: one document pushed again and again, nobody editing it,    *)
(* to repositories that have no issue yet, with every outcome of the       *)
(* transport and of the storage.                                           *)
(***************************************************************************)
NoIssues == [key \in {"me/notes", "acme/widgets"} |-> <<>>]

PushOnlyInit ==
    /\ text = ""
    /\ call = NoCall
    /\ result = NoResult
    /\ \E d \in DocTexts :
           /\ vault = [data |-> d, name |-> "note", mtime |-> 2]
           /\ fileData = d
           /\ issueFromNote = readIssueId(d)
    /\ hasFile \in BOOLEAN
    /\ remote = NoIssues
    /\ now = 3
    /\ pc = AllIdle
    /\ last = NoLast
    /\ status = Undefined
    /\ created = <<>>

PushOnlyNext ==
    \/ PushStart \/ PushThrows \/ PushRefused \/ PushAcknowledged
    \/ UpdateFileModify \/ UpdateFileModifyFails
    \/ EditorSync \/ Draw

PushOnlySpec == PushOnlyInit /\ [][PushOnlyNext]_vars

\* the create-issue requests the remote has acknowledged: the issues there
\* are, the repositories having started without any
CreatesAcknowledged == Len(remote["me/notes"]) + Len(remote["acme/widgets"])

\* C35: over the pushes of one document at most one create-issue request is
\* acknowledged, and once one was, the document carries the returned id, so
\* that a push started afterwards is an update with that id.
C35_AtMostOneCreate ==
    /\ CreatesAcknowledged <= 1
    /\ (CreatesAcknowledged = 1 /\ pc = AllIdle) =>
           \E key \in DOMAIN remote :
               /\ Len(remote[key]) = 1
               /\ readIssueId(vault.data) = Def(NumberToString(1))

====
